---- MODULE Spec2Model ----
(***************************************************************************)
(* A model of the ShipStation API client (src/src/ship_station).           *)
(*                                                                         *)
(* The client keeps a local rate-limit budget (request_remaining,          *)
(* request_next_cycle_in_seconds), gates some operations on it, issues     *)
(* blocking HTTP requests and turns the answers into plain results.        *)
(* A call is modelled in the steps at which it blocks: the call itself     *)
(* (up to the moment the request is on the wire) and the processing of     *)
(* the answer (up to the return, the raise, or the next request).          *)
(*                                                                         *)
(* Spec is the client under any sequence of its operations.  SpecAuth,     *)
(* SpecOrders and SpecUrl study the authorization check, the order model   *)
(* and the URL builder on their own, over inputs of their own.             *)
(***************************************************************************)
EXTENDS Integers, Sequences, FiniteSets, TLC

(***************************************************************************)
(* Bounds of the model.                                                    *)
(***************************************************************************)
\* the X-Rate-Limit-* headers carry the decimal texts of 0..MaxHeader
MaxHeader == 1
\* the orders array of a get_all_orders body holds up to MaxOrders records
MaxOrders == 2
\* an api_key and an api_secret have up to MaxKeyLen characters
MaxKeyLen == 2
\* __update_api_limits is handed the integers -MaxLimit..MaxLimit
MaxLimit == 4

(***************************************************************************)
(* ShipStationMeta: the static tables and the default budget.              *)
(***************************************************************************)
route_map ==
    [orders |-> "/orders/",
     stores |-> "/stores/",
     webhooks |-> "/webhooks/",
     webhook_subscribe |-> "/webhooks/subscribe/",
     webhook_delete |-> "/webhooks/",
     order_update |-> "/orders/createorder/",
     order_hold |-> "/orders/holduntil/"]

order_status_able_to_be_updated ==
    {"awaiting_payment", "awaiting_shipment", "on_hold"}

remove_order_keys_before_updating ==
    {"createDate", "modifyDate", "customerId", "orderTotal", "holdUntilDate",
     "userId", "externallyFulfilled", "externallyFulfilledBy",
     "externallyFulfilledById", "externallyFulfilledByName", "labelMessages"}

DefaultRequestRemaining == 40
DefaultNextCycleInSeconds == 60

\* the two headers the client reads
HdrRemaining == "X-Rate-Limit-Remaining"
HdrReset == "X-Rate-Limit-Reset"

(***************************************************************************)
(* Python's int(text) on a header value.  A text is a sequence of          *)
(* characters; int() takes an optional sign followed by decimal digits and *)
(* raises ValueError on anything else.                                     *)
(***************************************************************************)
DigitChars == <<"0", "1", "2", "3", "4", "5", "6", "7", "8", "9">>

IsDigit(ch) == \E i \in 1..10 : DigitChars[i] = ch

DigitValue(ch) == (CHOOSE i \in 1..10 : DigitChars[i] = ch) - 1

IsDigits(s) == Len(s) > 0 /\ \A i \in 1..Len(s) : IsDigit(s[i])

RECURSIVE DigitsValue(_)
DigitsValue(s) ==
    IF s = <<>> THEN 0
    ELSE DigitsValue(SubSeq(s, 1, Len(s) - 1)) * 10 + DigitValue(s[Len(s)])

IntParses(s) ==
    \/ IsDigits(s)
    \/ Len(s) >= 2 /\ s[1] \in {"-", "+"} /\ IsDigits(Tail(s))

IntOf(s) ==
    IF s[1] = "-" THEN 0 - DigitsValue(Tail(s))
    ELSE IF s[1] = "+" THEN DigitsValue(Tail(s))
    ELSE DigitsValue(s)

\* the decimal text of a natural number, as the server writes it
RECURSIVE DecText(_)
DecText(n) ==
    IF n < 10 THEN <<DigitChars[n + 1]>>
    ELSE Append(DecText(n \div 10), DigitChars[(n % 10) + 1])

(***************************************************************************)
(* JSON values.  A JSON object is a function from its keys (strings) to    *)
(* its values, a JSON array a sequence.  A Python value handed to the      *)
(* order model is tagged with its type, since the model's constructor      *)
(* tells an iterable from a value that is not.                             *)
(***************************************************************************)
EmptyDict == <<>>

PyList(items) == [type |-> "list", items |-> items]

PyNone == [type |-> "NoneType"]

\* d[k] = v, as Python's item assignment on a dict
DictSet(d, k, v) ==
    [x \in DOMAIN d \union {k} |-> IF x = k THEN v ELSE d[x]]

(***************************************************************************)
(* ShipStationOrderResponse (order_response.py).                           *)
(***************************************************************************)
\* str(order["orderId"]) of the i-th record
OrderKey(items, i) == ToString(items[i]["orderId"])

\* the index of the first record carrying key k
FirstIndexOf(items, k) ==
    CHOOSE i \in 1..Len(items) :
        /\ OrderKey(items, i) = k
        /\ \A j \in 1..(i - 1) : OrderKey(items, j) # k

\* the index of the last record carrying key k: a dict comprehension keeps
\* the value written last
LastIndexOf(items, k) ==
    CHOOSE i \in 1..Len(items) :
        /\ OrderKey(items, i) = k
        /\ \A j \in (i + 1)..Len(items) : OrderKey(items, j) # k

map_order_ids_with_json(order_dict) ==
    IF order_dict.type # "list" THEN EmptyDict                \* TypeError
    ELSE LET items == order_dict.items IN
         IF \E i \in 1..Len(items) : "orderId" \notin DOMAIN items[i]
         THEN EmptyDict                                        \* KeyError
         ELSE [k \in {OrderKey(items, i) : i \in 1..Len(items)} |->
                  items[LastIndexOf(items, k)]]

has_empty_values(orders) ==
    IF DOMAIN orders = {} THEN TRUE
    ELSE ~(\E item \in DOMAIN orders : item # "")

get_all_order_ids(order_dict) ==
    IF order_dict.type # "list" THEN <<>>                     \* TypeError
    ELSE LET items == order_dict.items IN
         IF \E i \in 1..Len(items) : "orderId" \notin DOMAIN items[i]
         THEN <<>>                                             \* KeyError
         ELSE [i \in 1..Len(items) |-> OrderKey(items, i)]

\* an orderNumber is a JSON string, and str() of a str is that str
map_order_id_to_order_number(order_dict) ==
    IF order_dict.type # "list" THEN EmptyDict                \* TypeError
    ELSE LET items == order_dict.items IN
         IF \E i \in 1..Len(items) :
                \/ "orderId" \notin DOMAIN items[i]
                \/ "orderNumber" \notin DOMAIN items[i]
         THEN EmptyDict                                        \* KeyError
         ELSE [k \in {OrderKey(items, i) : i \in 1..Len(items)} |->
                  items[LastIndexOf(items, k)]["orderNumber"]]

get_order_count(order_ids) == Len(order_ids)

ShipStationOrderResponse(order_dict) ==
    LET orders == map_order_ids_with_json(order_dict)
        order_ids == get_all_order_ids(order_dict)
    IN [orders |-> orders,
        is_empty |-> has_empty_values(orders),
        order_ids |-> order_ids,
        order_id_to_number_map |-> map_order_id_to_order_number(order_dict),
        order_count |-> get_order_count(order_ids)]

(***************************************************************************)
(* ShipStationMeta.build_path_url.  Strings are atomic here, so            *)
(* str.lower() is given on the spellings of the route keys the model uses. *)
(***************************************************************************)
host == "ssapi.shipstation.com"

LowerTable ==
    [ORDERS |-> "orders", Orders |-> "orders", STORES |-> "stores",
     Webhooks |-> "webhooks", ORDER_UPDATE |-> "order_update"]

Lower(str) == IF str \in DOMAIN LowerTable THEN LowerTable[str] ELSE str

\* the suffix appended only under the test of the route table
build_path_url_nested(path, additional_path) ==
    LET url == "https://" \o host IN
    IF Lower(path) \in DOMAIN route_map
    THEN IF path \in DOMAIN route_map
         THEN [exc |-> "", url |-> url \o route_map[path] \o additional_path]
         ELSE [exc |-> "KeyError"]
    ELSE [exc |-> "", url |-> url]

\* [exc |-> "", url |-> ...] or [exc |-> "KeyError"]: the table is looked up
\* with the lower-cased key and read with the key as given
build_path_url(path, additional_path) ==
    LET url == "https://" \o host IN
    IF Lower(path) \in DOMAIN route_map
    THEN IF path \in DOMAIN route_map
         THEN [exc |-> "", url |-> url \o route_map[path] \o additional_path]
         ELSE [exc |-> "KeyError"]
    ELSE [exc |-> "", url |-> url \o additional_path]

(***************************************************************************)
(* The rate-limit tracker.                                                 *)
(***************************************************************************)
\* the gate that keeps the last request of the budget back
api_limit_at_max_sparing(remaining) == remaining <= 1

\* the gate with its boundary off by one
api_limit_at_max_strict(remaining) == remaining < 0

api_limit_at_max(remaining) == remaining <= 0

\* the two fields written with each other's value
update_api_limits_swapped(request_remaining_, seconds_before_cycle_reset) ==
    [remaining |-> seconds_before_cycle_reset, reset |-> request_remaining_]

\* __update_api_limits overwrites both fields with what it is given
update_api_limits(request_remaining_, seconds_before_cycle_reset) ==
    [remaining |-> request_remaining_, reset |-> seconds_before_cycle_reset]

\* int(res.headers["X-Rate-Limit-Remaining"]), int(res.headers["X-Rate-Limit-Reset"]):
\* the two arguments are evaluated left to right, before the call
ReadLimitHeaders(headers) ==
    IF HdrRemaining \notin DOMAIN headers THEN [exc |-> "KeyError"]
    ELSE IF ~IntParses(headers[HdrRemaining]) THEN [exc |-> "ValueError"]
    ELSE IF HdrReset \notin DOMAIN headers THEN [exc |-> "KeyError"]
    ELSE IF ~IntParses(headers[HdrReset]) THEN [exc |-> "ValueError"]
    ELSE [exc |-> "",
          remaining |-> IntOf(headers[HdrRemaining]),
          reset |-> IntOf(headers[HdrReset])]

(***************************************************************************)
(* What a call gives its caller: a value, or an exception it lets through. *)
(***************************************************************************)
RetNone == [tag |-> "none"]

RetBool(b) == [tag |-> "bool", b |-> b]

RetJson(j) == [tag |-> "json", json |-> j]

RetModel(m) == [tag |-> "model", model |-> m]

Raise(exc) == [tag |-> "raise", exc |-> exc]

(***************************************************************************)
(* The Authorization header.  A text is the sequence of its code points    *)
(* (no surrogates), a byte string the sequence of its bytes.               *)
(***************************************************************************)
Colon == <<58>>

BasicWord == <<66, 97, 115, 105, 99>>

BasicPrefix == BasicWord \o <<32>>

\* str.encode("utf-8"), one character
utf8_encode_char(cp) ==
    IF cp < 128 THEN <<cp>>
    ELSE IF cp < 2048 THEN <<192 + (cp \div 64), 128 + (cp % 64)>>
    ELSE IF cp < 65536
    THEN <<224 + (cp \div 4096), 128 + ((cp \div 64) % 64), 128 + (cp % 64)>>
    ELSE <<240 + (cp \div 262144), 128 + ((cp \div 4096) % 64),
           128 + ((cp \div 64) % 64), 128 + (cp % 64)>>

RECURSIVE utf8_encode(_)
utf8_encode(text) ==
    IF text = <<>> THEN <<>>
    ELSE utf8_encode_char(Head(text)) \o utf8_encode(Tail(text))

\* the length of the UTF-8 sequence a byte leads, 0 when it leads none
Utf8Width(b) ==
    IF b < 128 THEN 1
    ELSE IF b >= 194 /\ b <= 223 THEN 2
    ELSE IF b >= 224 /\ b <= 239 THEN 3
    ELSE IF b >= 240 /\ b <= 244 THEN 4
    ELSE 0

Utf8Continues(b) == b >= 128 /\ b <= 191

\* the second byte rules out overlong forms, surrogates and > U+10FFFF
Utf8SecondOk(b1, b2) ==
    IF b1 = 224 THEN b2 >= 160 /\ b2 <= 191
    ELSE IF b1 = 237 THEN b2 >= 128 /\ b2 <= 159
    ELSE IF b1 = 240 THEN b2 >= 144 /\ b2 <= 191
    ELSE IF b1 = 244 THEN b2 >= 128 /\ b2 <= 143
    ELSE Utf8Continues(b2)

\* bytes.decode("utf-8"): [exc |-> "", text |-> ...] or the exception
RECURSIVE utf8_decode(_)
utf8_decode(bs) ==
    IF bs = <<>> THEN [exc |-> "", text |-> <<>>]
    ELSE LET w == Utf8Width(bs[1]) IN
         IF w = 0 \/ Len(bs) < w THEN [exc |-> "UnicodeDecodeError"]
         ELSE IF w >= 2 /\ ~Utf8SecondOk(bs[1], bs[2]) THEN [exc |-> "UnicodeDecodeError"]
         ELSE IF w >= 3 /\ ~Utf8Continues(bs[3]) THEN [exc |-> "UnicodeDecodeError"]
         ELSE IF w = 4 /\ ~Utf8Continues(bs[4]) THEN [exc |-> "UnicodeDecodeError"]
         ELSE LET cp == IF w = 1 THEN bs[1]
                        ELSE IF w = 2 THEN (bs[1] - 192) * 64 + (bs[2] - 128)
                        ELSE IF w = 3
                        THEN (bs[1] - 224) * 4096 + (bs[2] - 128) * 64 + (bs[3] - 128)
                        ELSE (bs[1] - 240) * 262144 + (bs[2] - 128) * 4096
                             + (bs[3] - 128) * 64 + (bs[4] - 128)
                  rest == utf8_decode(SubSeq(bs, w + 1, Len(bs)))
              IN IF rest.exc # "" THEN rest
                 ELSE [exc |-> "", text |-> <<cp>> \o rest.text]

\* the base64 alphabet: A-Z a-z 0-9 + /
B64Char(v) ==
    IF v < 26 THEN 65 + v
    ELSE IF v < 52 THEN 97 + (v - 26)
    ELSE IF v < 62 THEN 48 + (v - 52)
    ELSE IF v = 62 THEN 43
    ELSE 47

\* the value of a character of the alphabet, 64 for any other character
B64Value(ch) ==
    IF ch >= 65 /\ ch <= 90 THEN ch - 65
    ELSE IF ch >= 97 /\ ch <= 122 THEN ch - 97 + 26
    ELSE IF ch >= 48 /\ ch <= 57 THEN ch - 48 + 52
    ELSE IF ch = 43 THEN 62
    ELSE IF ch = 47 THEN 63
    ELSE 64

\* base64.b64encode
RECURSIVE b64encode(_)
b64encode(bs) ==
    IF bs = <<>> THEN <<>>
    ELSE IF Len(bs) = 1
    THEN <<B64Char(bs[1] \div 4), B64Char((bs[1] % 4) * 16), 61, 61>>
    ELSE IF Len(bs) = 2
    THEN <<B64Char(bs[1] \div 4), B64Char((bs[1] % 4) * 16 + (bs[2] \div 16)),
           B64Char((bs[2] % 16) * 4), 61>>
    ELSE <<B64Char(bs[1] \div 4), B64Char((bs[1] % 4) * 16 + (bs[2] \div 16)),
           B64Char((bs[2] % 16) * 4 + (bs[3] \div 64)), B64Char(bs[3] % 64)>>
         \o b64encode(SubSeq(bs, 4, Len(bs)))

\* binascii.a2b_base64 without strict mode: characters outside the alphabet
\* are skipped, a completed run of "=" ends the input, an unfinished quad
\* is an error
RECURSIVE a2b_base64(_, _, _, _, _)
a2b_base64(data, quad_pos, leftchar, pads, out) ==
    IF data = <<>>
    THEN IF quad_pos # 0 THEN [exc |-> "binascii.Error"]
         ELSE [exc |-> "", bytes |-> out]
    ELSE LET ch == Head(data)
             v == B64Value(ch)
         IN IF ch = 61
            THEN IF quad_pos >= 2 /\ quad_pos + pads + 1 >= 4
                 THEN [exc |-> "", bytes |-> out]
                 ELSE a2b_base64(Tail(data), quad_pos, leftchar,
                                 IF quad_pos >= 2 THEN pads + 1 ELSE pads, out)
            ELSE IF v = 64 THEN a2b_base64(Tail(data), quad_pos, leftchar, pads, out)
            ELSE IF quad_pos = 0 THEN a2b_base64(Tail(data), 1, v, 0, out)
            ELSE IF quad_pos = 1
            THEN a2b_base64(Tail(data), 2, v % 16, 0,
                            Append(out, leftchar * 4 + (v \div 16)))
            ELSE IF quad_pos = 2
            THEN a2b_base64(Tail(data), 3, v % 4, 0,
                            Append(out, leftchar * 16 + (v \div 4)))
            ELSE a2b_base64(Tail(data), 0, 0, 0, Append(out, leftchar * 64 + v))

\* base64.standard_b64decode of a str: the str is first encoded as ASCII
standard_b64decode(s) ==
    IF \E i \in 1..Len(s) : s[i] >= 128 THEN [exc |-> "ValueError"]
    ELSE a2b_base64(s, 0, 0, 0, <<>>)

\* sub in text
Contains(text, sub) ==
    \E i \in 1..(Len(text) - Len(sub) + 1) : SubSeq(text, i, i + Len(sub) - 1) = sub

\* text.replace(old, ""), old not empty: the occurrences are taken left to right
RECURSIVE Remove(_, _)
Remove(text, old) ==
    IF Len(text) < Len(old) THEN text
    ELSE IF SubSeq(text, 1, Len(old)) = old
    THEN Remove(SubSeq(text, Len(old) + 1, Len(text)), old)
    ELSE <<Head(text)>> \o Remove(Tail(text), old)

\* text.split(sep) for a separator of one character
RECURSIVE split(_, _)
split(text, sep) ==
    IF \A i \in 1..Len(text) : <<text[i]>> # sep THEN <<text>>
    ELSE LET i == CHOOSE i \in 1..Len(text) :
                      /\ <<text[i]>> = sep
                      /\ \A j \in 1..(i - 1) : <<text[j]>> # sep
         IN <<SubSeq(text, 1, i - 1)>> \o split(SubSeq(text, i + 1, Len(text)), sep)

remove_basic_in_auth_string(auth_string) ==
    IF Contains(auth_string, BasicWord) THEN Remove(auth_string, BasicPrefix)
    ELSE auth_string

\* [exc |-> "", parts |-> ...] or the exception the decoding lets through
decode_b64_auth_string(auth_string) ==
    LET raw == standard_b64decode(auth_string) IN
    IF raw.exc # "" THEN [exc |-> raw.exc]
    ELSE LET text == utf8_decode(raw.bytes) IN
         IF text.exc # "" THEN [exc |-> text.exc]
         ELSE [exc |-> "", parts |-> split(text.text, Colon)]

authorize_request(key, secret, auth_string) ==
    LET decoded_string == decode_b64_auth_string(remove_basic_in_auth_string(auth_string)) IN
    IF decoded_string.exc # "" THEN Raise(decoded_string.exc)
    ELSE IF Len(decoded_string.parts) < 2 THEN RetBool(FALSE)
    ELSE LET given_key == decoded_string.parts[1]
             given_secret == decoded_string.parts[2]
         IN IF given_key # key /\ given_secret # secret THEN RetBool(FALSE)
            ELSE RetBool(TRUE)

\* "Basic " + b64encode(f"{api_key}:{api_secret}")
build_authorization_header(key, secret) ==
    BasicPrefix \o b64encode(utf8_encode(key \o Colon \o secret))

(***************************************************************************)
(* The order-update helpers.                                               *)
(***************************************************************************)
\* the status test with a status too many
is_order_able_to_be_updated_lax(order_json) ==
    IF "orderStatus" \in DOMAIN order_json
    THEN order_json["orderStatus"] \in order_status_able_to_be_updated \union {"shipped"}
    ELSE FALSE

is_order_able_to_be_updated(order_json) ==
    IF "orderStatus" \in DOMAIN order_json
    THEN order_json["orderStatus"] \in order_status_able_to_be_updated
    ELSE FALSE

remove_invalid_order_keys(order_body) ==
    [k \in DOMAIN order_body \ remove_order_keys_before_updating |-> order_body[k]]

\* order_body[custom_note_parent_key][custom_note_key] = custom_note_str
update_order_custom_note(order_body, custom_note_key, custom_note_str) ==
    IF "advancedOptions" \notin DOMAIN order_body THEN [exc |-> "KeyError"]
    ELSE [exc |-> "",
          body |-> [order_body EXCEPT !["advancedOptions"] =
                       DictSet(@, custom_note_key, custom_note_str)]]

\* the records of a model in the order the dict holds them: the order of the
\* first appearance of each key in order_ids
RECURSIVE Dedup(_)
Dedup(ids) ==
    IF ids = <<>> THEN <<>>
    ELSE LET front == Dedup(SubSeq(ids, 1, Len(ids) - 1))
             last == ids[Len(ids)]
         IN IF \E i \in 1..Len(front) : front[i] = last THEN front
            ELSE Append(front, last)

\* "True", "False", or the exception the loop over the records lets through
RECURSIVE CheckRecords(_, _)
CheckRecords(orders, keys) ==
    IF keys = <<>> THEN "True"
    ELSE LET single_order == orders[Head(keys)] IN
         IF "orderStatus" \notin DOMAIN single_order THEN "KeyError"    \* print(...)
         ELSE IF ~is_order_able_to_be_updated(single_order)
              THEN IF "orderNumber" \notin DOMAIN single_order
                   THEN "KeyError"
                   ELSE "False"
              ELSE CheckRecords(orders, Tail(keys))

pre_update_order_checks(order, remaining) ==
    IF order.is_empty THEN "False"
    ELSE IF api_limit_at_max(remaining) THEN "False"
    ELSE CheckRecords(order.orders, Dedup(order.order_ids))

(***************************************************************************)
(* What the server may answer.  requests raises ReadTimeout or             *)
(* ConnectionError, or returns a response with a status (res.ok), headers  *)
(* and a JSON body.  A header is absent, or carries a text.                *)
(***************************************************************************)
TransportFailures == {[kind |-> "ReadTimeout"], [kind |-> "ConnectionError"]}

HeaderTexts == {DecText(i) : i \in 0..MaxHeader} \union {<<"-", "1">>, <<"x">>}

HeaderSets == UNION {[D -> HeaderTexts] : D \in SUBSET {HdrRemaining, HdrReset}}

\* the text of an error answer; the client only logs it
ErrorText == "error"

HttpResponses(Bodies) ==
    {[kind |-> "http", ok |-> TRUE, headers |-> h, json |-> j] :
        h \in HeaderSets, j \in Bodies}
    \union
    {[kind |-> "http", ok |-> FALSE, headers |-> h, text |-> ErrorText] :
        h \in HeaderSets}

Responses(Bodies) == TransportFailures \union HttpResponses(Bodies)

SeqsUpTo(S, n) == UNION {[1..k -> S] : k \in 0..n}

\* an order document as the orders resource returns it
OrderDocument(id, number, status) ==
    [orderId |-> id, orderNumber |-> number, orderStatus |-> status,
     createDate |-> "2024-02-20", modifyDate |-> "2024-02-21",
     customerId |-> 7, orderTotal |-> 10, holdUntilDate |-> "",
     userId |-> "u1", externallyFulfilled |-> FALSE,
     externallyFulfilledBy |-> "", externallyFulfilledById |-> 0,
     externallyFulfilledByName |-> "", internalNotes |-> "",
     advancedOptions |-> [customField1 |-> "", customField2 |-> "", customField3 |-> ""]]

Without(d, keys) == [k \in DOMAIN d \ keys |-> d[k]]

\* the bodies a fetch of one order may carry
SingleOrderBodies ==
    {OrderDocument(1, "N1", "awaiting_shipment"),
     OrderDocument(1, "N1", "shipped"),
     Without(OrderDocument(1, "N1", "on_hold"), {"advancedOptions"}),
     Without(OrderDocument(1, "N1", "awaiting_shipment"), {"orderStatus"}),
     Without(OrderDocument(1, "N1", "shipped"), {"orderNumber"}),
     Without(OrderDocument(1, "N1", "awaiting_shipment"), {"orderId"}),
     EmptyDict}

\* the records an orders listing may carry
ListedOrders ==
    {OrderDocument(1, "N1", "awaiting_shipment"),
     OrderDocument(2, "N1", "shipped"),
     Without(OrderDocument(2, "N2", "shipped"), {"orderId"})}

AllOrdersBodies ==
    {[orders |-> os, total |-> Len(os)] : os \in SeqsUpTo(ListedOrders, MaxOrders)}
        \union {[message |-> "no orders"]}

StoresBodies == {<<>>, <<[storeId |-> 1, storeName |-> "Store"]>>}

WebhooksBodies ==
    {[webhooks |-> <<>>],
     [webhooks |-> <<[WebHookID |-> 1, Name |-> "hook"]>>],
     [message |-> "no webhooks"]}

CreatedBodies == {[id |-> 30686]}

NoBodies == {EmptyDict}

(***************************************************************************)
(* The state.                                                              *)
(***************************************************************************)
Callers == {"a", "b"}

VARIABLES
    request_remaining,               \* ShipStationMeta.request_remaining
    request_next_cycle_in_seconds,   \* ShipStationMeta.request_next_cycle_in_seconds
    pc,        \* per caller: "off", "idle", "wait" (request on the wire),
               \* "wait_post" (update_order_notes' POST on the wire), "done"
    call,      \* per caller: the operation called and its arguments
    sent,      \* per caller: the HTTP requests the current call has issued
    answers,   \* per caller: the answers the current call has received
    order,     \* per caller: update_order_notes' local, the fetched model
    ret,       \* per caller: what the last call gave its caller
    api_key,                \* ShipStation.api_key
    api_secret,             \* ShipStation.api_secret
    authorization_header,   \* ShipStation.authorization_header["Authorization"]
    order_dict, \* the value an order model is constructed from
    remote      \* the replacements of the order document the server has applied

vars ==
    <<request_remaining, request_next_cycle_in_seconds, pc, call, sent, answers,
      order, ret, api_key, api_secret, authorization_header, order_dict, remote>>

\* what no operation of the client assigns after construction
credentials == <<api_key, api_secret, authorization_header>>

\* the credentials of the tests: "Fake Key", "Fake Secret"
FakeKey == <<70, 97, 107, 101, 32, 75, 101, 121>>

FakeSecret == <<70, 97, 107, 101, 32, 83, 101, 99, 114, 101, 116>>

Rate == [remaining |-> request_remaining, reset |-> request_next_cycle_in_seconds]

SetRate(rate) ==
    /\ request_remaining' = rate.remaining
    /\ request_next_cycle_in_seconds' = rate.reset

EmptyModel == ShipStationOrderResponse(PyList(<<>>))

\* a client right after ShipStation(api_key, api_secret), used by one caller
Init ==
    /\ request_remaining = DefaultRequestRemaining
    /\ request_next_cycle_in_seconds = DefaultNextCycleInSeconds
    /\ pc = [c \in Callers |-> IF c = "a" THEN "idle" ELSE "off"]
    /\ call = [c \in Callers |-> [op |-> "none"]]
    /\ sent = [c \in Callers |-> <<>>]
    /\ answers = [c \in Callers |-> <<>>]
    /\ order = [c \in Callers |-> EmptyModel]
    /\ ret = [c \in Callers |-> RetNone]
    /\ api_key = FakeKey
    /\ api_secret = FakeSecret
    /\ authorization_header = build_authorization_header(api_key, api_secret)
    /\ order_dict = PyNone
    /\ remote = <<>>

Idle(c) == pc[c] \in {"idle", "done"}

\* the call begins: its locals are fresh
Begin(c, cl) ==
    /\ call' = [call EXCEPT ![c] = cl]
    /\ order' = [order EXCEPT ![c] = EmptyModel]

\* the call returns before any request
Refuse(c, r) ==
    /\ pc' = [pc EXCEPT ![c] = "done"]
    /\ ret' = [ret EXCEPT ![c] = r]
    /\ sent' = [sent EXCEPT ![c] = <<>>]
    /\ answers' = [answers EXCEPT ![c] = <<>>]

\* the call issues its first request and blocks
Request(c, req) ==
    /\ pc' = [pc EXCEPT ![c] = "wait"]
    /\ ret' = [ret EXCEPT ![c] = RetNone]
    /\ sent' = [sent EXCEPT ![c] = <<req>>]
    /\ answers' = [answers EXCEPT ![c] = <<>>]

\* the call takes the answer res and returns, or raises
Complete(c, res, r) ==
    /\ pc' = [pc EXCEPT ![c] = "done"]
    /\ ret' = [ret EXCEPT ![c] = r]
    /\ answers' = [answers EXCEPT ![c] = Append(@, res)]
    /\ UNCHANGED sent

Waiting(c, op) == pc[c] = "wait" /\ call[c].op = op

(***************************************************************************)
(* The webhook operations: gated, and silent about the budget afterwards.  *)
(***************************************************************************)
TargetUrls == {"https://hello-world.org"}
Events == {"ORDER_NOTIFY"}
StoreIds == {"", "56789"}
FriendlyNames == {"", "Test Name"}
WebhookIds == {123}
OrderIds == {1}
InternalNotes == {"note"}
CustomNotes(n) == {"", n}
HoldDates == {"2024-03-01"}
CustomParams == {EmptyDict, [orderNumber |-> "N1"]}

create_webhook_subscription(c) ==
    /\ Idle(c)
    /\ \E target_url \in TargetUrls, event \in Events,
          store_id \in StoreIds, friendly_name \in FriendlyNames :
        /\ Begin(c, [op |-> "create_webhook_subscription", target_url |-> target_url,
                     event |-> event, store_id |-> store_id,
                     friendly_name |-> friendly_name])
        /\ IF api_limit_at_max(request_remaining)
           THEN Refuse(c, RetBool(FALSE))
           ELSE LET b0 == [target_url |-> target_url, event |-> event]
                    b1 == IF store_id # "" THEN DictSet(b0, "store_id", store_id) ELSE b0
                    b2 == IF friendly_name # ""
                          THEN DictSet(b1, "friendly_name", friendly_name) ELSE b1
                IN Request(c, [method |-> "POST",
                               url |-> build_path_url("webhook_subscribe", "").url,
                               json |-> b2])
    /\ UNCHANGED <<request_remaining, request_next_cycle_in_seconds, credentials, order_dict, remote>>

create_webhook_subscription_answer(rate, res) ==
    IF res.kind = "ReadTimeout" THEN [rate |-> rate, ret |-> RetBool(FALSE)]
    ELSE IF res.kind = "ConnectionError" THEN [rate |-> rate, ret |-> RetBool(FALSE)]
    ELSE IF ~res.ok THEN [rate |-> rate, ret |-> RetBool(FALSE)]
    ELSE [rate |-> rate, ret |-> RetBool(TRUE)]

create_webhook_subscription_response(c) ==
    /\ Waiting(c, "create_webhook_subscription")
    /\ \E res \in Responses(CreatedBodies) :
        LET out == create_webhook_subscription_answer(Rate, res) IN
        SetRate(out.rate) /\ Complete(c, res, out.ret)
    /\ UNCHANGED <<call, order, credentials, order_dict, remote>>

get_webhooks(c) ==
    /\ Idle(c)
    /\ Begin(c, [op |-> "get_webhooks"])
    /\ IF api_limit_at_max(request_remaining)
       THEN Refuse(c, RetJson(<<>>))
       ELSE Request(c, [method |-> "GET", url |-> build_path_url("webhooks", "").url])
    /\ UNCHANGED <<request_remaining, request_next_cycle_in_seconds, credentials, order_dict, remote>>

\* the budget written from the headers of a success, as the ungated
\* operations write it
get_webhooks_answer_updating(rate, res) ==
    IF res.kind = "ReadTimeout" THEN [rate |-> rate, ret |-> RetJson(<<>>)]
    ELSE IF res.kind = "ConnectionError" THEN [rate |-> rate, ret |-> RetJson(<<>>)]
    ELSE IF ~res.ok THEN [rate |-> rate, ret |-> RetJson(<<>>)]
    ELSE LET lim == ReadLimitHeaders(res.headers)
             rate2 == IF lim.exc # "" THEN rate
                      ELSE update_api_limits(lim.remaining, lim.reset)
         IN IF "webhooks" \notin DOMAIN res.json
            THEN [rate |-> rate2, ret |-> Raise("KeyError")]
            ELSE [rate |-> rate2, ret |-> RetJson(res.json["webhooks"])]

get_webhooks_answer(rate, res) ==
    IF res.kind = "ReadTimeout" THEN [rate |-> rate, ret |-> RetJson(<<>>)]
    ELSE IF res.kind = "ConnectionError" THEN [rate |-> rate, ret |-> RetJson(<<>>)]
    ELSE IF ~res.ok THEN [rate |-> rate, ret |-> RetJson(<<>>)]
    ELSE IF "webhooks" \notin DOMAIN res.json THEN [rate |-> rate, ret |-> Raise("KeyError")]
    ELSE [rate |-> rate, ret |-> RetJson(res.json["webhooks"])]

get_webhooks_response(c) ==
    /\ Waiting(c, "get_webhooks")
    /\ \E res \in Responses(WebhooksBodies) :
        LET out == get_webhooks_answer(Rate, res) IN
        SetRate(out.rate) /\ Complete(c, res, out.ret)
    /\ UNCHANGED <<call, order, credentials, order_dict, remote>>

delete_webhook(c) ==
    /\ Idle(c)
    /\ \E webhook_id \in WebhookIds :
        /\ Begin(c, [op |-> "delete_webhook", webhook_id |-> webhook_id])
        /\ IF api_limit_at_max(request_remaining)
           THEN Refuse(c, RetBool(FALSE))
           ELSE Request(c, [method |-> "DELETE",
                            url |-> build_path_url("webhook_delete",
                                                   ToString(webhook_id)).url])
    /\ UNCHANGED <<request_remaining, request_next_cycle_in_seconds, credentials, order_dict, remote>>

\* delete_webhook without its test of the status
delete_webhook_answer_unchecked(rate, res) ==
    IF res.kind = "ReadTimeout" THEN [rate |-> rate, ret |-> RetBool(FALSE)]
    ELSE IF res.kind = "ConnectionError" THEN [rate |-> rate, ret |-> RetBool(FALSE)]
    ELSE [rate |-> rate, ret |-> RetBool(TRUE)]

delete_webhook_answer(rate, res) ==
    IF res.kind = "ReadTimeout" THEN [rate |-> rate, ret |-> RetBool(FALSE)]
    ELSE IF res.kind = "ConnectionError" THEN [rate |-> rate, ret |-> RetBool(FALSE)]
    ELSE IF ~res.ok THEN [rate |-> rate, ret |-> RetBool(FALSE)]
    ELSE [rate |-> rate, ret |-> RetBool(TRUE)]

delete_webhook_response(c) ==
    /\ Waiting(c, "delete_webhook")
    /\ \E res \in Responses(NoBodies) :
        LET out == delete_webhook_answer(Rate, res) IN
        SetRate(out.rate) /\ Complete(c, res, out.ret)
    /\ UNCHANGED <<call, order, credentials, order_dict, remote>>

(***************************************************************************)
(* The read operations: not gated; a success status rewrites the budget.   *)
(***************************************************************************)
get_all_stores(c) ==
    /\ Idle(c)
    /\ \E show_inactive_stores \in BOOLEAN :
        /\ Begin(c, [op |-> "get_all_stores",
                     show_inactive_stores |-> show_inactive_stores])
        /\ Request(c, [method |-> "GET", url |-> build_path_url("stores", "").url,
                       params |-> [showInactive |-> show_inactive_stores]])
    /\ UNCHANGED <<request_remaining, request_next_cycle_in_seconds, credentials, order_dict, remote>>

\* get_all_stores reading the limits before it looks at the status
get_all_stores_answer_eager(rate, res) ==
    IF res.kind = "ReadTimeout" THEN [rate |-> rate, ret |-> RetJson(<<>>)]
    ELSE IF res.kind = "ConnectionError" THEN [rate |-> rate, ret |-> RetJson(<<>>)]
    ELSE LET lim == ReadLimitHeaders(res.headers) IN
         IF lim.exc # "" THEN [rate |-> rate, ret |-> Raise(lim.exc)]
         ELSE IF ~res.ok
         THEN [rate |-> update_api_limits(lim.remaining, lim.reset), ret |-> RetJson(<<>>)]
         ELSE [rate |-> update_api_limits(lim.remaining, lim.reset),
               ret |-> RetJson(res.json)]

get_all_stores_answer(rate, res) ==
    IF res.kind = "ReadTimeout" THEN [rate |-> rate, ret |-> RetJson(<<>>)]
    ELSE IF res.kind = "ConnectionError" THEN [rate |-> rate, ret |-> RetJson(<<>>)]
    ELSE IF ~res.ok THEN [rate |-> rate, ret |-> RetJson(<<>>)]
    ELSE LET lim == ReadLimitHeaders(res.headers) IN
         IF lim.exc # "" THEN [rate |-> rate, ret |-> Raise(lim.exc)]
         ELSE [rate |-> update_api_limits(lim.remaining, lim.reset),
               ret |-> RetJson(res.json)]

get_all_stores_response(c) ==
    /\ Waiting(c, "get_all_stores")
    /\ \E res \in Responses(StoresBodies) :
        LET out == get_all_stores_answer(Rate, res) IN
        SetRate(out.rate) /\ Complete(c, res, out.ret)
    /\ UNCHANGED <<call, order, credentials, order_dict, remote>>

get_order_request(order_id) ==
    [method |-> "GET", url |-> build_path_url("orders", "").url \o ToString(order_id)]

get_order(c) ==
    /\ Idle(c)
    /\ \E order_id \in OrderIds :
        /\ Begin(c, [op |-> "get_order", order_id |-> order_id])
        /\ Request(c, get_order_request(order_id))
    /\ UNCHANGED <<request_remaining, request_next_cycle_in_seconds, credentials, order_dict, remote>>

get_order_answer(rate, res) ==
    IF res.kind = "ReadTimeout" THEN [rate |-> rate, ret |-> RetModel(EmptyModel)]
    ELSE IF res.kind = "ConnectionError" THEN [rate |-> rate, ret |-> RetModel(EmptyModel)]
    ELSE IF ~res.ok THEN [rate |-> rate, ret |-> RetModel(EmptyModel)]
    ELSE LET lim == ReadLimitHeaders(res.headers) IN
         IF lim.exc # "" THEN [rate |-> rate, ret |-> Raise(lim.exc)]
         ELSE [rate |-> update_api_limits(lim.remaining, lim.reset),
               ret |-> RetModel(ShipStationOrderResponse(PyList(<<res.json>>)))]

get_order_response(c) ==
    /\ Waiting(c, "get_order")
    /\ \E res \in Responses(SingleOrderBodies) :
        LET out == get_order_answer(Rate, res) IN
        SetRate(out.rate) /\ Complete(c, res, out.ret)
    /\ UNCHANGED <<call, order, credentials, order_dict, remote>>

get_all_orders(c) ==
    /\ Idle(c)
    /\ \E custom_params \in CustomParams :
        /\ Begin(c, [op |-> "get_all_orders", custom_params |-> custom_params])
        /\ Request(c, [method |-> "GET", url |-> build_path_url("orders", "").url,
                       params |-> custom_params])
    /\ UNCHANGED <<request_remaining, request_next_cycle_in_seconds, credentials, order_dict, remote>>

\* the model built from the body itself, as get_order builds it
get_all_orders_answer_unlisted(rate, res) ==
    IF res.kind = "ReadTimeout" THEN [rate |-> rate, ret |-> RetModel(EmptyModel)]
    ELSE IF res.kind = "ConnectionError" THEN [rate |-> rate, ret |-> RetModel(EmptyModel)]
    ELSE IF ~res.ok THEN [rate |-> rate, ret |-> RetModel(EmptyModel)]
    ELSE LET lim == ReadLimitHeaders(res.headers) IN
         IF lim.exc # "" THEN [rate |-> rate, ret |-> Raise(lim.exc)]
         ELSE [rate |-> update_api_limits(lim.remaining, lim.reset),
               ret |-> RetModel(ShipStationOrderResponse(PyList(<<res.json>>)))]

get_all_orders_answer(rate, res) ==
    IF res.kind = "ReadTimeout" THEN [rate |-> rate, ret |-> RetModel(EmptyModel)]
    ELSE IF res.kind = "ConnectionError" THEN [rate |-> rate, ret |-> RetModel(EmptyModel)]
    ELSE IF ~res.ok THEN [rate |-> rate, ret |-> RetModel(EmptyModel)]
    ELSE LET lim == ReadLimitHeaders(res.headers) IN
         IF lim.exc # "" THEN [rate |-> rate, ret |-> Raise(lim.exc)]
         ELSE LET rate2 == update_api_limits(lim.remaining, lim.reset) IN
              IF "orders" \notin DOMAIN res.json
              THEN [rate |-> rate2, ret |-> Raise("KeyError")]
              ELSE [rate |-> rate2,
                    ret |-> RetModel(ShipStationOrderResponse(PyList(res.json["orders"])))]

get_all_orders_response(c) ==
    /\ Waiting(c, "get_all_orders")
    /\ \E res \in Responses(AllOrdersBodies) :
        LET out == get_all_orders_answer(Rate, res) IN
        SetRate(out.rate) /\ Complete(c, res, out.ret)
    /\ UNCHANGED <<call, order, credentials, order_dict, remote>>

(***************************************************************************)
(* get_order_by_order_number: get_all_orders with the number as its filter. *)
(***************************************************************************)
OrderNumbers == {"N1"}

get_order_by_order_number(c) ==
    /\ Idle(c)
    /\ \E order_number \in OrderNumbers :
        /\ Begin(c, [op |-> "get_order_by_order_number", order_number |-> order_number])
        /\ Request(c, [method |-> "GET", url |-> build_path_url("orders", "").url,
                       params |-> [orderNumber |-> order_number]])
    /\ UNCHANGED <<request_remaining, request_next_cycle_in_seconds, credentials, order_dict, remote>>

\* "if not order" never holds, a model being an object without __bool__ and
\* __len__, and both branches return what get_all_orders gave
get_order_by_order_number_answer(rate, res) == get_all_orders_answer(rate, res)

get_order_by_order_number_response(c) ==
    /\ Waiting(c, "get_order_by_order_number")
    /\ \E res \in Responses(AllOrdersBodies) :
        LET out == get_order_by_order_number_answer(Rate, res) IN
        SetRate(out.rate) /\ Complete(c, res, out.ret)
    /\ UNCHANGED <<call, order, credentials, order_dict, remote>>

(***************************************************************************)
(* hold_order: not gated, no fetch.                                        *)
(***************************************************************************)
hold_order(c) ==
    /\ Idle(c)
    /\ \E order_id \in OrderIds, hold_until_date \in HoldDates :
        /\ Begin(c, [op |-> "hold_order", order_id |-> order_id,
                     hold_until_date |-> hold_until_date])
        /\ Request(c, [method |-> "POST", url |-> build_path_url("order_hold", "").url,
                       json |-> [orderID |-> order_id, holdUntilDate |-> hold_until_date]])
    /\ UNCHANGED <<request_remaining, request_next_cycle_in_seconds, credentials, order_dict, remote>>

hold_order_answer(rate, res) ==
    IF res.kind = "ReadTimeout" THEN [rate |-> rate, ret |-> RetBool(FALSE)]
    ELSE IF res.kind = "ConnectionError" THEN [rate |-> rate, ret |-> RetBool(FALSE)]
    ELSE IF ~res.ok THEN [rate |-> rate, ret |-> RetBool(FALSE)]
    ELSE LET lim == ReadLimitHeaders(res.headers) IN
         IF lim.exc # "" THEN [rate |-> rate, ret |-> Raise(lim.exc)]
         ELSE [rate |-> update_api_limits(lim.remaining, lim.reset), ret |-> RetBool(TRUE)]

hold_order_response(c) ==
    /\ Waiting(c, "hold_order")
    /\ \E res \in Responses(NoBodies) :
        LET out == hold_order_answer(Rate, res) IN
        SetRate(out.rate) /\ Complete(c, res, out.ret)
    /\ UNCHANGED <<call, order, credentials, order_dict, remote>>

(***************************************************************************)
(* update_order_notes: fetch, check, rebuild the body, POST.               *)
(***************************************************************************)
update_order_notes(c) ==
    /\ Idle(c)
    /\ \E order_id \in OrderIds, internal_note \in InternalNotes,
          custom_note \in CustomNotes("c1"), custom_note2 \in CustomNotes("c2"),
          custom_note3 \in CustomNotes("c3") :
        /\ Begin(c, [op |-> "update_order_notes", order_id |-> order_id,
                     internal_note |-> internal_note, custom_note |-> custom_note,
                     custom_note2 |-> custom_note2, custom_note3 |-> custom_note3])
        /\ Request(c, get_order_request(order_id))
    /\ UNCHANGED <<request_remaining, request_next_cycle_in_seconds, credentials, order_dict, remote>>

\* lines 508-527: [exc |-> "", body |-> the body to POST], or the exception
update_order_notes_body(fetched, args) ==
    LET b0 == DictSet(remove_invalid_order_keys(fetched.orders),
                      "internalNotes", args.internal_note)
        n1 == IF args.custom_note # ""
              THEN update_order_custom_note(b0, "customField", args.custom_note)
              ELSE [exc |-> "", body |-> b0]
        n2 == IF n1.exc # "" THEN n1
              ELSE IF args.custom_note2 # ""
              THEN update_order_custom_note(n1.body, "customField2", args.custom_note2)
              ELSE n1
        n3 == IF n2.exc # "" THEN n2
              ELSE IF args.custom_note3 # ""
              THEN update_order_custom_note(n2.body, "customField3", args.custom_note3)
              ELSE n2
    IN n3

\* the gate tested on the budget held before the fetch
update_order_notes_fetched_stale(rate, res, args) ==
    LET got == get_order_answer(rate, res) IN
    IF got.ret.tag = "raise"
    THEN [rate |-> got.rate, order |-> EmptyModel, ret |-> got.ret]
    ELSE LET fetched == got.ret.model
             checks == pre_update_order_checks(fetched, rate.remaining)
         IN IF checks = "False"
            THEN [rate |-> got.rate, order |-> fetched, ret |-> RetBool(FALSE)]
            ELSE IF checks # "True"
            THEN [rate |-> got.rate, order |-> fetched, ret |-> Raise(checks)]
            ELSE LET built == update_order_notes_body(fetched, args) IN
                 IF built.exc # ""
                 THEN [rate |-> got.rate, order |-> fetched, ret |-> Raise(built.exc)]
                 ELSE [rate |-> got.rate, order |-> fetched,
                       post |-> [method |-> "POST",
                                 url |-> build_path_url("order_update", "").url,
                                 json |-> built.body]]

\* lines 505-531, from the answer to the fetch on: what the call does next.
\* [rate, order, ret] when it ends there, [rate, order, post] when it POSTs.
update_order_notes_fetched(rate, res, args) ==
    LET got == get_order_answer(rate, res) IN
    IF got.ret.tag = "raise"
    THEN [rate |-> got.rate, order |-> EmptyModel, ret |-> got.ret]
    ELSE LET fetched == got.ret.model
             checks == pre_update_order_checks(fetched, got.rate.remaining)
         IN IF checks = "False"
            THEN [rate |-> got.rate, order |-> fetched, ret |-> RetBool(FALSE)]
            ELSE IF checks # "True"
            THEN [rate |-> got.rate, order |-> fetched, ret |-> Raise(checks)]
            ELSE LET built == update_order_notes_body(fetched, args) IN
                 IF built.exc # ""
                 THEN [rate |-> got.rate, order |-> fetched, ret |-> Raise(built.exc)]
                 ELSE [rate |-> got.rate, order |-> fetched,
                       post |-> [method |-> "POST",
                                 url |-> build_path_url("order_update", "").url,
                                 json |-> built.body]]

update_order_notes_fetch_response(c) ==
    /\ Waiting(c, "update_order_notes")
    /\ \E res \in Responses(SingleOrderBodies) :
        LET out == update_order_notes_fetched(Rate, res, call[c]) IN
        /\ SetRate(out.rate)
        /\ order' = [order EXCEPT ![c] = out.order]
        /\ IF "post" \in DOMAIN out
           THEN /\ pc' = [pc EXCEPT ![c] = "wait_post"]
                /\ sent' = [sent EXCEPT ![c] = Append(@, out.post)]
                /\ answers' = [answers EXCEPT ![c] = Append(@, res)]
                /\ UNCHANGED ret
           ELSE Complete(c, res, out.ret)
    /\ UNCHANGED <<call, credentials, order_dict, remote>>

update_order_notes_answer(rate, res) ==
    IF res.kind = "ReadTimeout" THEN [rate |-> rate, ret |-> RetBool(FALSE)]
    ELSE IF res.kind = "ConnectionError" THEN [rate |-> rate, ret |-> RetBool(FALSE)]
    ELSE IF ~res.ok THEN [rate |-> rate, ret |-> RetBool(FALSE)]
    ELSE LET lim == ReadLimitHeaders(res.headers) IN
         IF lim.exc # "" THEN [rate |-> rate, ret |-> Raise(lim.exc)]
         ELSE [rate |-> update_api_limits(lim.remaining, lim.reset), ret |-> RetBool(TRUE)]

update_order_notes_response(c) ==
    /\ pc[c] = "wait_post"
    /\ call[c].op = "update_order_notes"
    /\ \E res \in Responses(NoBodies) :
        LET out == update_order_notes_answer(Rate, res) IN
        SetRate(out.rate) /\ Complete(c, res, out.ret)
    /\ UNCHANGED <<call, order, credentials, order_dict, remote>>

(***************************************************************************)
(* The specification: one caller, any operation after any other.           *)
(***************************************************************************)
Next ==
    \E c \in Callers :
        \/ create_webhook_subscription(c)
        \/ create_webhook_subscription_response(c)
        \/ get_webhooks(c)
        \/ get_webhooks_response(c)
        \/ delete_webhook(c)
        \/ delete_webhook_response(c)
        \/ get_all_stores(c)
        \/ get_all_stores_response(c)
        \/ get_order(c)
        \/ get_order_response(c)
        \/ get_all_orders(c)
        \/ get_all_orders_response(c)
        \/ get_order_by_order_number(c)
        \/ get_order_by_order_number_response(c)
        \/ hold_order(c)
        \/ hold_order_response(c)
        \/ update_order_notes(c)
        \/ update_order_notes_fetch_response(c)
        \/ update_order_notes_response(c)

Spec == Init /\ [][Next]_vars

(***************************************************************************)
(* The authorization check on its own: a client constructed with any key   *)
(* and secret, asked to authorize any header value and to rebuild its own. *)
(***************************************************************************)
\* the characters of the keys and secrets: "a" and ":"
KeyChars == {97, 58}

Keys == SeqsUpTo(KeyChars, MaxKeyLen)

\* header values no client built: "", "YQ==" (a), "YTph" (a:a), "abc",
\* "/w==" (the byte 0xFF), "Basic", "basic YTph" and one with a character
\* outside ASCII
OtherAuthStrings ==
    {<<>>, <<89, 81, 61, 61>>, <<89, 84, 112, 104>>, <<97, 98, 99>>,
     <<47, 119, 61, 61>>, BasicWord, <<98, 97, 115, 105, 99, 32, 89, 84, 112, 104>>,
     <<233>>}

AuthStrings ==
    {build_authorization_header(k, s) : k \in Keys, s \in Keys}
        \union OtherAuthStrings

InitAuth ==
    /\ request_remaining = DefaultRequestRemaining
    /\ request_next_cycle_in_seconds = DefaultNextCycleInSeconds
    /\ pc = [c \in Callers |-> IF c = "a" THEN "idle" ELSE "off"]
    /\ call = [c \in Callers |-> [op |-> "none"]]
    /\ sent = [c \in Callers |-> <<>>]
    /\ answers = [c \in Callers |-> <<>>]
    /\ order = [c \in Callers |-> EmptyModel]
    /\ ret = [c \in Callers |-> RetNone]
    /\ api_key \in Keys
    /\ api_secret \in Keys
    /\ authorization_header = build_authorization_header(api_key, api_secret)
    /\ order_dict = PyNone
    /\ remote = <<>>

authorize_request_call(c) ==
    /\ Idle(c)
    /\ \E auth_string \in AuthStrings :
        /\ Begin(c, [op |-> "authorize_request", auth_string |-> auth_string])
        /\ Refuse(c, authorize_request(api_key, api_secret, auth_string))
    /\ UNCHANGED <<request_remaining, request_next_cycle_in_seconds, credentials, order_dict, remote>>

build_authorization_header_call(c) ==
    /\ Idle(c)
    /\ Begin(c, [op |-> "build_authorization_header"])
    /\ Refuse(c, RetNone)
    /\ authorization_header' = build_authorization_header(api_key, api_secret)
    /\ UNCHANGED <<request_remaining, request_next_cycle_in_seconds, api_key,
                   api_secret, order_dict, remote>>

NextAuth ==
    \E c \in Callers :
        \/ authorize_request_call(c)
        \/ build_authorization_header_call(c)

SpecAuth == InitAuth /\ [][NextAuth]_vars

(***************************************************************************)
(* The order model on its own: a model constructed from any value, then    *)
(* read through its accessors.                                             *)
(***************************************************************************)
RetStr(s) == [tag |-> "str", str |-> s]

get_order_json(self, order_id) ==
    IF self.order_ids = <<>>
       \/ ~(\E i \in 1..Len(self.order_ids) : self.order_ids[i] = order_id)
    THEN EmptyDict
    ELSE self.orders[order_id]

\* the reversed map keeps, for a number, the first of the ids carrying it
get_order_id_first(self, order_number) ==
    LET keys == Dedup(self.order_ids)
        hits == {i \in 1..Len(keys) :
                    /\ keys[i] \in DOMAIN self.order_id_to_number_map
                    /\ self.order_id_to_number_map[keys[i]] = order_number}
    IN IF hits = {} THEN ""
       ELSE keys[CHOOSE i \in hits : \A j \in hits : i <= j]

\* {v: k for k, v in order_id_to_number_map.items()}[order_number]: the items
\* come in the order of insertion, and a number written twice keeps the id
\* written last; "" on KeyError
get_order_id(self, order_number) ==
    LET keys == Dedup(self.order_ids)
        hits == {i \in 1..Len(keys) :
                    /\ keys[i] \in DOMAIN self.order_id_to_number_map
                    /\ self.order_id_to_number_map[keys[i]] = order_number}
    IN IF hits = {} THEN ""
       ELSE keys[CHOOSE i \in hits : \A j \in hits : i >= j]

\* the records a model is built from: two that share a number, two that
\* share an id, one without orderId, one without orderNumber, an empty one
ModelRecords ==
    ListedOrders
        \union {OrderDocument(1, "N2", "on_hold"),
                Without(OrderDocument(3, "N3", "shipped"), {"orderNumber"}),
                EmptyDict}

OrderDicts ==
    {PyList(os) : os \in SeqsUpTo(ModelRecords, MaxOrders)} \union {PyNone}

ProbeIds == {"1", "2", "9"}

ProbeNumbers == {"N1", "N2", "N9"}

InitOrders ==
    /\ request_remaining = DefaultRequestRemaining
    /\ request_next_cycle_in_seconds = DefaultNextCycleInSeconds
    /\ pc = [c \in Callers |-> IF c = "a" THEN "idle" ELSE "off"]
    /\ call = [c \in Callers |-> [op |-> "none"]]
    /\ sent = [c \in Callers |-> <<>>]
    /\ answers = [c \in Callers |-> <<>>]
    /\ order = [c \in Callers |-> EmptyModel]
    /\ ret = [c \in Callers |-> RetNone]
    /\ api_key = FakeKey
    /\ api_secret = FakeSecret
    /\ authorization_header = build_authorization_header(api_key, api_secret)
    /\ order_dict \in OrderDicts
    /\ remote = <<>>

ModelOps == {"ShipStationOrderResponse", "get_order_json", "get_order_id"}

\* the caller holds the model it constructed from order_dict
Constructed(c) == pc[c] = "done" /\ call[c].op \in ModelOps

ShipStationOrderResponse_call(c) ==
    /\ pc[c] = "idle"
    /\ call' = [call EXCEPT ![c] = [op |-> "ShipStationOrderResponse"]]
    /\ order' = [order EXCEPT ![c] = ShipStationOrderResponse(order_dict)]
    /\ Refuse(c, RetModel(ShipStationOrderResponse(order_dict)))
    /\ UNCHANGED <<request_remaining, request_next_cycle_in_seconds, credentials, order_dict, remote>>

get_order_json_call(c) ==
    /\ Constructed(c)
    /\ \E order_id \in ProbeIds :
        /\ call' = [call EXCEPT ![c] = [op |-> "get_order_json", order_id |-> order_id]]
        /\ Refuse(c, RetJson(get_order_json(order[c], order_id)))
    /\ UNCHANGED <<request_remaining, request_next_cycle_in_seconds, credentials,
                   order_dict, order, remote>>

get_order_id_call(c) ==
    /\ Constructed(c)
    /\ \E order_number \in ProbeNumbers :
        /\ call' = [call EXCEPT ![c] =
                       [op |-> "get_order_id", order_number |-> order_number]]
        /\ Refuse(c, RetStr(get_order_id(order[c], order_number)))
    /\ UNCHANGED <<request_remaining, request_next_cycle_in_seconds, credentials,
                   order_dict, order, remote>>

NextOrders ==
    \E c \in Callers :
        \/ ShipStationOrderResponse_call(c)
        \/ get_order_json_call(c)
        \/ get_order_id_call(c)

SpecOrders == InitOrders /\ [][NextOrders]_vars

(***************************************************************************)
(* The URL builder on its own: a call of build_path_url with any key and   *)
(* any suffix.                                                             *)
(***************************************************************************)
\* the keys of the route table, other spellings of them, and unknown keys
Paths == DOMAIN route_map \union DOMAIN LowerTable \union {"hello_world", ""}

AdditionalPaths == {"", "1234", "/fake/path/", "/hello/world/", "?page=2"}

InitUrl ==
    /\ request_remaining = DefaultRequestRemaining
    /\ request_next_cycle_in_seconds = DefaultNextCycleInSeconds
    /\ pc = [c \in Callers |-> IF c = "a" THEN "idle" ELSE "off"]
    /\ \E path \in Paths, additional_path \in AdditionalPaths :
        call = [c \in Callers |->
                   IF c = "a"
                   THEN [op |-> "build_path_url", path |-> path,
                         additional_path |-> additional_path]
                   ELSE [op |-> "none"]]
    /\ sent = [c \in Callers |-> <<>>]
    /\ answers = [c \in Callers |-> <<>>]
    /\ order = [c \in Callers |-> EmptyModel]
    /\ ret = [c \in Callers |-> RetNone]
    /\ api_key = FakeKey
    /\ api_secret = FakeSecret
    /\ authorization_header = build_authorization_header(api_key, api_secret)
    /\ order_dict = PyNone
    /\ remote = <<>>

build_path_url_call(c) ==
    /\ pc[c] = "idle"
    /\ call[c].op = "build_path_url"
    /\ LET out == build_path_url(call[c].path, call[c].additional_path) IN
       Refuse(c, IF out.exc # "" THEN Raise(out.exc) ELSE RetStr(out.url))
    /\ UNCHANGED <<request_remaining, request_next_cycle_in_seconds, call, order,
                   credentials, order_dict, remote>>

NextUrl == \E c \in Callers : build_path_url_call(c)

SpecUrl == InitUrl /\ [][NextUrl]_vars

(***************************************************************************)
(* The rate-limit tracker on its own: a new client whose budget is         *)
(* written and asked about directly.                                       *)
(***************************************************************************)
LimitValues == (0 - MaxLimit)..MaxLimit

api_limit_at_max_call(c) ==
    /\ Idle(c)
    /\ Begin(c, [op |-> "api_limit_at_max"])
    /\ Refuse(c, RetBool(api_limit_at_max(request_remaining)))
    /\ UNCHANGED <<request_remaining, request_next_cycle_in_seconds, credentials, order_dict, remote>>

\* the assignments cannot fail, and the function returns True after them
update_api_limits_call(c) ==
    /\ Idle(c)
    /\ \E request_remaining_ \in LimitValues, seconds_before_cycle_reset \in LimitValues :
        /\ Begin(c, [op |-> "update_api_limits",
                     request_remaining |-> request_remaining_,
                     seconds_before_cycle_reset |-> seconds_before_cycle_reset])
        /\ SetRate(update_api_limits(request_remaining_, seconds_before_cycle_reset))
    /\ Refuse(c, RetBool(TRUE))
    /\ UNCHANGED <<credentials, order_dict, remote>>

NextLimits ==
    \E c \in Callers :
        \/ api_limit_at_max_call(c)
        \/ update_api_limits_call(c)

SpecLimits == Init /\ [][NextLimits]_vars

(***************************************************************************)
(* One client shared by two callers, its budget down to one request, as a  *)
(* response with X-Rate-Limit-Remaining: 1 and X-Rate-Limit-Reset: 0       *)
(* leaves it.  A caller runs between the other's request and its answer.   *)
(***************************************************************************)
InitShared ==
    /\ request_remaining = 1
    /\ request_next_cycle_in_seconds = 0
    /\ pc = [c \in Callers |-> "idle"]
    /\ call = [c \in Callers |-> [op |-> "none"]]
    /\ sent = [c \in Callers |-> <<>>]
    /\ answers = [c \in Callers |-> <<>>]
    /\ order = [c \in Callers |-> EmptyModel]
    /\ ret = [c \in Callers |-> RetNone]
    /\ api_key = FakeKey
    /\ api_secret = FakeSecret
    /\ authorization_header = build_authorization_header(api_key, api_secret)
    /\ order_dict = PyNone
    /\ remote = <<>>

NextShared ==
    \E c \in Callers :
        \/ create_webhook_subscription(c)
        \/ create_webhook_subscription_response(c)
        \/ delete_webhook(c)
        \/ delete_webhook_response(c)

SpecShared == InitShared /\ [][NextShared]_vars

(***************************************************************************)
(* One call of update_order_notes and the server it writes to.  The server *)
(* applies a POST while the client waits for the answer; a success status  *)
(* answers an applied POST, a non-success status a refused one, and a      *)
(* timeout or a broken connection tells the client nothing of the two.     *)
(***************************************************************************)
update_order_notes_once(c) ==
    /\ pc[c] = "idle"
    /\ update_order_notes(c)

server_applies_post(c) ==
    /\ pc[c] = "wait_post"
    /\ remote = <<>>
    /\ remote' = <<sent[c][Len(sent[c])].json>>
    /\ UNCHANGED <<request_remaining, request_next_cycle_in_seconds, pc, call, sent,
                   answers, order, ret, credentials, order_dict>>

update_order_notes_post_answered(c) ==
    /\ update_order_notes_response(c)
    /\ LET res == answers'[c][Len(answers'[c])] IN
       /\ (res.kind = "http" /\ res.ok) => remote # <<>>
       /\ (res.kind = "http" /\ ~res.ok) => remote = <<>>

NextRemote ==
    \E c \in Callers :
        \/ update_order_notes_once(c)
        \/ update_order_notes_fetch_response(c)
        \/ server_applies_post(c)
        \/ update_order_notes_post_answered(c)

SpecRemote == Init /\ [][NextRemote]_vars

(***************************************************************************)
(* Vocabulary of the properties.                                           *)
(***************************************************************************)
GatedOps == {"create_webhook_subscription", "get_webhooks", "delete_webhook"}

WriteOps == {"create_webhook_subscription", "delete_webhook", "update_order_notes",
             "hold_order"}

ReadOps == {"get_all_stores", "get_order", "get_all_orders"}

\* what an operation gives when it gives up: [], False, or an empty model
IsFailureResult(op, r) ==
    IF op \in {"get_all_stores", "get_webhooks"}
    THEN r.tag = "json" /\ r.json = <<>>
    ELSE IF op \in {"get_order", "get_all_orders", "get_order_by_order_number"}
    THEN /\ r.tag = "model"
         /\ r.model.is_empty
         /\ DOMAIN r.model.orders = {}
    ELSE r.tag = "bool" /\ r.b = FALSE

\* caller c takes this step, and it is the beginning of a call
CallBegins(c) ==
    /\ Idle(c)
    /\ <<pc[c], call[c], sent[c], ret[c]>>' # <<pc[c], call[c], sent[c], ret[c]>>

\* the call that begins in this step is refused before any request
RefusedAtOnce(c) ==
    /\ pc'[c] = "done"
    /\ sent'[c] = <<>>
    /\ answers'[c] = <<>>
    /\ IsFailureResult(call'[c].op, ret'[c])

Last(seq) == seq[Len(seq)]

\* C1: a gated operation (create_webhook_subscription, get_webhooks,
\* delete_webhook) called while request_remaining <= 0 returns its rate-limited
\* result (False, [], False) and issues no HTTP request.
C1_GatedRefusedAtMax ==
    [][\A c \in Callers :
          (CallBegins(c) /\ call'[c].op \in GatedOps /\ request_remaining <= 0)
              => RefusedAtOnce(c)]_vars

\* a gated operation has been refused with the budget at zero or below
C1_Witness ==
    \E c \in Callers :
        /\ pc[c] = "done"
        /\ call[c].op = "get_webhooks"
        /\ request_remaining <= 0
        /\ sent[c] = <<>>
        /\ ret[c] = RetJson(<<>>)

\* C2: a write operation (create_webhook_subscription, delete_webhook,
\* update_order_notes, hold_order) called while request_remaining = 0 returns
\* False and performs no HTTP call.
C2_WritesRefusedAtZero ==
    [][\A c \in Callers :
          (CallBegins(c) /\ call'[c].op \in WriteOps /\ request_remaining = 0)
              => RefusedAtOnce(c)]_vars

\* C3: while request_remaining <= 0 the read operations (get_all_stores,
\* get_order, get_all_orders) issue no HTTP request and return their empty result.
C3_ReadsRefusedAtMax ==
    [][\A c \in Callers :
          (CallBegins(c) /\ call'[c].op \in ReadOps /\ request_remaining <= 0)
              => RefusedAtOnce(c)]_vars

\* the answer is a response with a success status
Succeeded(res) == res.kind = "http" /\ res.ok

\* the answer is a response with a success status whose two rate-limit headers
\* are present and decimal
SucceededWithLimits(res) ==
    /\ Succeeded(res)
    /\ {HdrRemaining, HdrReset} \subseteq DOMAIN res.headers
    /\ IntParses(res.headers[HdrRemaining])
    /\ IntParses(res.headers[HdrReset])

\* C4: every operation that completes with a successful HTTP status has, when
\* it returns, overwritten request_remaining and request_next_cycle_in_seconds
\* with the values of that response's X-Rate-Limit-Remaining and
\* X-Rate-Limit-Reset headers.
C4_SuccessUpdatesLimits ==
    \A c \in Callers :
        (/\ pc[c] = "done"
         /\ answers[c] # <<>>
         /\ SucceededWithLimits(Last(answers[c]))
         /\ ret[c].tag # "raise")
        => /\ request_remaining = IntOf(Last(answers[c]).headers[HdrRemaining])
           /\ request_next_cycle_in_seconds = IntOf(Last(answers[c]).headers[HdrReset])

\* caller c takes an answer in this step
TakesAnswer(c) ==
    /\ pc[c] \in {"wait", "wait_post"}
    /\ Len(answers'[c]) = Len(answers[c]) + 1

RateUnchanged ==
    /\ request_remaining' = request_remaining
    /\ request_next_cycle_in_seconds' = request_next_cycle_in_seconds

\* C5: request_remaining and request_next_cycle_in_seconds change only in a
\* step that processes a response with a success status; a gate refusal, a
\* transport failure and a non-success status leave both as they were.
C5_LimitsChangeOnlyOnSuccess ==
    [][/\ ~RateUnchanged =>
            \E c \in Callers : TakesAnswer(c) /\ Succeeded(Last(answers'[c]))
       /\ \A c \in Callers :
            /\ CallBegins(c) => RateUnchanged
            /\ (TakesAnswer(c) /\ ~Succeeded(Last(answers'[c]))) => RateUnchanged]_vars

\* a call has ended on a non-success status that carried well-formed limits,
\* and the tracker does not hold them
C5_Witness ==
    \E c \in Callers :
        /\ pc[c] = "done"
        /\ call[c].op = "get_all_stores"
        /\ answers[c] # <<>>
        /\ Last(answers[c]).kind = "http"
        /\ ~Last(answers[c]).ok
        /\ HdrRemaining \in DOMAIN Last(answers[c]).headers
        /\ Last(answers[c]).headers[HdrRemaining] = <<"0">>
        /\ request_remaining = 1

UpdatableStatuses == {"awaiting_payment", "awaiting_shipment", "on_hold"}

Posts(requests) == {i \in 1..Len(requests) : requests[i].method = "POST"}

\* get_order, called by update_order_notes, returned a model to it
FetchReturned(c) ==
    /\ Len(answers[c]) >= 1
    /\ Succeeded(answers[c][1]) => SucceededWithLimits(answers[c][1])

\* every record of the model carries the keys the data model requires of an order
WellFormed(model) ==
    \A k \in DOMAIN model.orders :
        {"orderId", "orderNumber", "orderStatus"} \subseteq DOMAIN model.orders[k]

\* some record of the model has a status outside the updatable ones
HasFixedStatus(model) ==
    \E k \in DOMAIN model.orders :
        /\ "orderStatus" \in DOMAIN model.orders[k]
        /\ model.orders[k]["orderStatus"] \notin UpdatableStatuses

\* C6: update_order_notes issues its POST only after its fetch succeeded and the
\* pre-checks passed, in this order: the fetched model is not empty, the gate is
\* not at max, every record's orderStatus is awaiting_payment, awaiting_shipment
\* or on_hold.  When a check fails (the model is empty; else the gate is at max;
\* else a record of a well-formed model has another status, such as "shipped")
\* the call returns False and has issued no POST.
C6_PostOnlyAfterChecks ==
    \A c \in Callers :
        call[c].op = "update_order_notes" =>
            /\ Posts(sent[c]) # {} =>
                  /\ Len(answers[c]) >= 1
                  /\ Succeeded(answers[c][1])
                  /\ ~order[c].is_empty
                  /\ IntOf(answers[c][1].headers[HdrRemaining]) > 0
                  /\ \A k \in DOMAIN order[c].orders :
                        /\ "orderStatus" \in DOMAIN order[c].orders[k]
                        /\ order[c].orders[k]["orderStatus"] \in UpdatableStatuses
            /\ pc[c] = "wait_post" => request_remaining > 0
            /\ (pc[c] = "done" /\ FetchReturned(c)
                  /\ \/ order[c].is_empty
                     \/ (~Succeeded(answers[c][1]))
                     \/ IntOf(answers[c][1].headers[HdrRemaining]) <= 0
                     \/ (WellFormed(order[c]) /\ HasFixedStatus(order[c])))
               => /\ ret[c] = RetBool(FALSE)
                  /\ Posts(sent[c]) = {}
                  /\ Len(answers[c]) = 1

\* update_order_notes has returned False without a POST on an order that was
\* fetched, with the gate open, in status "shipped"
C6_Witness ==
    \E c \in Callers :
        /\ pc[c] = "done"
        /\ call[c].op = "update_order_notes"
        /\ Len(answers[c]) = 1
        /\ SucceededWithLimits(answers[c][1])
        /\ request_remaining > 0
        /\ ~order[c].is_empty
        /\ WellFormed(order[c])
        /\ \A k \in DOMAIN order[c].orders : order[c].orders[k]["orderStatus"] = "shipped"
        /\ ret[c] = RetBool(FALSE)
        /\ Posts(sent[c]) = {}

\* the ten keys the update must not resend
ServerManagedKeys ==
    {"createDate", "modifyDate", "customerId", "orderTotal", "holdUntilDate", "userId",
     "externallyFulfilled", "externallyFulfilledBy", "externallyFulfilledById",
     "externallyFulfilledByName"}

\* the order-update POST of caller c's current call, once it is issued
HasUpdatePost(c) == call[c].op = "update_order_notes" /\ Len(sent[c]) = 2

UpdateBody(c) == sent[c][2].json

\* C7: for a fetched order in status "awaiting_shipment", the body POSTed by
\* update_order_notes(id, "note") is the order document itself: the fetched
\* record's keys at the top level, without createDate, modifyDate, customerId,
\* orderTotal, holdUntilDate, userId and the four externallyFulfilled* keys, and
\* with internalNotes = "note".
C7_BodyIsStrippedDocument ==
    \A c \in Callers :
        (/\ HasUpdatePost(c)
         /\ call[c].internal_note = "note"
         /\ answers[c][1].json["orderStatus"] = "awaiting_shipment")
        => LET fetched == answers[c][1].json IN
           /\ \A k \in DOMAIN fetched \ (ServerManagedKeys \union {"internalNotes"}) :
                 k \in DOMAIN UpdateBody(c) /\ UpdateBody(c)[k] = fetched[k]
           /\ DOMAIN UpdateBody(c) \intersect ServerManagedKeys = {}
           /\ "internalNotes" \in DOMAIN UpdateBody(c)
           /\ UpdateBody(c)["internalNotes"] = "note"

\* the notes of the call that are not empty, by the key each is to be written under
NotesToWrite(args) ==
    {<<"customField", args.custom_note>>, <<"customField2", args.custom_note2>>,
     <<"customField3", args.custom_note3>>} \ {<<"customField", "">>,
     <<"customField2", "">>, <<"customField3", "">>}

\* the pre-checks of caller c's update_order_notes passed on an order that has
\* the advancedOptions mapping
PassedChecks(c) ==
    /\ call[c].op = "update_order_notes"
    /\ Len(answers[c]) >= 1
    /\ SucceededWithLimits(answers[c][1])
    /\ IntOf(answers[c][1].headers[HdrRemaining]) > 0
    /\ ~order[c].is_empty
    /\ \A k \in DOMAIN order[c].orders :
          /\ {"orderStatus", "advancedOptions"} \subseteq DOMAIN order[c].orders[k]
          /\ order[c].orders[k]["orderStatus"] \in UpdatableStatuses

\* C8: update_order_notes called with a non-empty custom_note, custom_note2 or
\* custom_note3 on an updatable order writes each into the body's nested
\* advancedOptions under customField, customField2, customField3, issues the
\* POST, and returns True on a success status without raising.
C8_CustomNotesWritten ==
    \A c \in Callers :
        (PassedChecks(c) /\ NotesToWrite(call[c]) # {} /\ pc[c] = "done")
        => /\ Len(sent[c]) = 2
           /\ "advancedOptions" \in DOMAIN UpdateBody(c)
           /\ \A n \in NotesToWrite(call[c]) :
                 /\ n[1] \in DOMAIN UpdateBody(c)["advancedOptions"]
                 /\ UpdateBody(c)["advancedOptions"][n[1]] = n[2]
           /\ SucceededWithLimits(Last(answers[c])) => ret[c] = RetBool(TRUE)

\* C9: in every public operation a transport failure (timeout, connection
\* error) and a non-success status give the same result: [] for get_all_stores
\* and get_webhooks, False for create_webhook_subscription, delete_webhook,
\* update_order_notes and hold_order, an empty model for get_order and
\* get_all_orders.  The call issues no further request after the failure and
\* lets no exception through.
C9_FailuresDegradeAlike ==
    \A c \in Callers :
        \A i \in 1..Len(answers[c]) :
            ~Succeeded(answers[c][i]) =>
                /\ i = Len(answers[c])
                /\ pc[c] = "done"
                /\ Len(sent[c]) = i
                /\ ret[c].tag # "raise"
                /\ IsFailureResult(call[c].op, ret[c])

\* update_order_notes has returned False on a POST that timed out
C9_Witness ==
    \E c \in Callers :
        /\ pc[c] = "done"
        /\ call[c].op = "update_order_notes"
        /\ Len(sent[c]) = 2
        /\ Len(answers[c]) = 2
        /\ answers[c][2].kind = "ReadTimeout"
        /\ ret[c] = RetBool(FALSE)

\* the answer is a success whose body lacks the key the operation reads (and
\* whose limits, where the operation reads them, are well-formed)
LacksExpectedKey(op, res) ==
    \/ op = "get_all_orders" /\ SucceededWithLimits(res) /\ "orders" \notin DOMAIN res.json
    \/ op = "get_webhooks" /\ Succeeded(res) /\ "webhooks" \notin DOMAIN res.json

\* C10: a successful response whose body lacks the expected key (no orders
\* array for get_all_orders, no webhooks array for get_webhooks) is turned into
\* the empty result (an empty model, []) and no exception reaches the caller.
C10_MalformedBodyDegrades ==
    \A c \in Callers :
        (/\ pc[c] = "done"
         /\ answers[c] # <<>>
         /\ LacksExpectedKey(call[c].op, Last(answers[c])))
        => /\ ret[c].tag # "raise"
           /\ IsFailureResult(call[c].op, ret[c])

(***************************************************************************)
(* The authorization check (SpecAuth).                                     *)
(***************************************************************************)
\* the caller's call of authorize_request has returned or raised
Authorized(c) == pc[c] = "done" /\ call[c].op = "authorize_request"

\* what the check decodes from the header value it was given
Decoded(c) == decode_b64_auth_string(remove_basic_in_auth_string(call[c].auth_string))

\* C11: authorize_request returns True exactly when the decoded key equals
\* api_key and the decoded secret equals api_secret; when either of the two
\* differs it returns False.
C11_AuthorizedIffBothMatch ==
    \A c \in Callers :
        (Authorized(c) /\ Decoded(c).exc = "" /\ Len(Decoded(c).parts) >= 2)
            => ret[c] = RetBool(/\ Decoded(c).parts[1] = api_key
                                /\ Decoded(c).parts[2] = api_secret)

\* C12: for every key and secret, those with a ":" included, authorize_request
\* returns True on the header value the client built from them, and building
\* the header again gives the same value.
C12_OwnHeaderAuthorized ==
    /\ authorization_header = build_authorization_header(api_key, api_secret)
    /\ \A c \in Callers :
        (Authorized(c) /\ call[c].auth_string = authorization_header)
            => ret[c] = RetBool(TRUE)

\* RFC 4648 text: quads of alphabet characters, the last one padded with
\* one or two "="
IsBase64(s) ==
    /\ Len(s) % 4 = 0
    /\ \A i \in 1..Len(s) :
        \/ B64Value(s[i]) < 64
        \/ s[i] = 61 /\ i >= Len(s) - 1 /\ \A j \in i..Len(s) : s[j] = 61

\* the text is base64 of bytes that are UTF-8
IsBase64OfUtf8(s) ==
    IsBase64(s) /\ standard_b64decode(s).exc = ""
               /\ utf8_decode(standard_b64decode(s).bytes).exc = ""

\* C13: on a header value that is not valid base64, or whose bytes are not
\* UTF-8, authorize_request returns False and raises nothing.
C13_MalformedIsUnauthorized ==
    \A c \in Callers :
        (Authorized(c)
            /\ ~IsBase64OfUtf8(remove_basic_in_auth_string(call[c].auth_string)))
            => ret[c] = RetBool(FALSE)

(***************************************************************************)
(* The order model (SpecOrders).                                           *)
(***************************************************************************)
\* the model is built from a list
IsList(d) == d.type = "list"

\* every record of the list carries the key
AllCarry(d, key) == \A i \in 1..Len(d.items) : key \in DOMAIN d.items[i]

\* the input is a list of records with orderId and orderNumber
WellFormedInput(d) == IsList(d) /\ AllCarry(d, "orderId") /\ AllCarry(d, "orderNumber")

Range(s) == {s[i] : i \in 1..Len(s)}

\* C14: a model whose construction succeeded, two records with one orderId
\* included, has order_count = len(order_ids) = len(orders), and orders,
\* order_ids and order_id_to_number_map hold the same ids.
C14_DerivedStructuresAgree ==
    \A c \in Callers :
        (Constructed(c) /\ WellFormedInput(order_dict))
            => /\ order[c].order_count = Len(order[c].order_ids)
               /\ order[c].order_count = Cardinality(DOMAIN order[c].orders)
               /\ DOMAIN order[c].orders = Range(order[c].order_ids)
               /\ DOMAIN order[c].orders = DOMAIN order[c].order_id_to_number_map

\* C15: from an input that is empty, or no list, or holds a record without
\* orderId or without orderNumber, the construction gives the empty model:
\* is_empty, no orders, no order_ids, no numbers, order_count 0.
C15_MalformedInputGivesEmptyModel ==
    \A c \in Callers :
        (Constructed(c) /\ (~WellFormedInput(order_dict) \/ order_dict.items = <<>>))
            => /\ order[c].is_empty
               /\ DOMAIN order[c].orders = {}
               /\ order[c].order_ids = <<>>
               /\ DOMAIN order[c].order_id_to_number_map = {}
               /\ order[c].order_count = 0

\* C16: is_empty holds exactly when the input was empty, or all its records
\* were empty, or it was malformed (no list, or a record without an expected
\* key); the model of [] is empty with order_count 0, and a model with
\* order_count >= 1 is not empty.
C16_IsEmptyIffNothingUsable ==
    \A c \in Callers :
        Constructed(c)
            => /\ order[c].is_empty <=>
                    \/ ~WellFormedInput(order_dict)
                    \/ \A i \in 1..Len(order_dict.items) : DOMAIN order_dict.items[i] = {}
               /\ order_dict = PyList(<<>>)
                    => order[c].is_empty /\ order[c].order_count = 0
               /\ order[c].order_count >= 1 => ~order[c].is_empty

\* C17: for a model built from records r1..rn, order_ids is str(ri.orderId) in
\* the order of the input, get_order_json(id) is the last input record whose
\* str(orderId) is id, unchanged, and for an id not in order_ids it is {}.
C17_IdsInOrderAndRecordsUnchanged ==
    \A c \in Callers :
        /\ (Constructed(c) /\ IsList(order_dict) /\ AllCarry(order_dict, "orderId"))
            => LET items == order_dict.items
                   carriers(id) == {i \in 1..Len(items) : ToString(items[i]["orderId"]) = id}
               IN /\ order[c].order_ids =
                        [i \in 1..Len(items) |-> ToString(items[i]["orderId"])]
                  /\ (call[c].op = "get_order_json" /\ carriers(call[c].order_id) # {})
                        => \E i \in carriers(call[c].order_id) :
                              /\ \A j \in carriers(call[c].order_id) : j <= i
                              /\ ret[c] = RetJson(items[i])
        /\ (Constructed(c) /\ call[c].op = "get_order_json"
                /\ call[c].order_id \notin Range(order[c].order_ids))
            => ret[c] = RetJson(EmptyDict)

\* two records of the input share the id, differ, and the accessor gave the second
C17_Witness ==
    /\ Constructed("a") /\ call["a"].op = "get_order_json"
    /\ IsList(order_dict) /\ Len(order_dict.items) = 2
    /\ AllCarry(order_dict, "orderId")
    /\ order_dict.items[1]["orderId"] = order_dict.items[2]["orderId"]
    /\ order_dict.items[1] # order_dict.items[2]
    /\ ret["a"] = RetJson(order_dict.items[2])

\* C18: of the records that share an orderNumber under different orderIds,
\* get_order_id(number) gives one id, that of the record supplied last; for a
\* number no record carries it gives "".
C18_LastIdOfNumberWins ==
    \A c \in Callers :
        (Constructed(c) /\ call[c].op = "get_order_id")
            => LET number == call[c].order_number
                   items == IF IsList(order_dict) THEN order_dict.items ELSE <<>>
                   carriers == {i \in 1..Len(items) :
                                   /\ "orderNumber" \in DOMAIN items[i]
                                   /\ items[i]["orderNumber"] = number}
               IN /\ carriers = {} => ret[c] = RetStr("")
                  /\ (/\ carriers # {}
                      /\ WellFormedInput(order_dict)
                      /\ \A i, j \in 1..Len(items) :
                            i # j => items[i]["orderId"] # items[j]["orderId"])
                        => \E i \in carriers :
                              /\ \A j \in carriers : j <= i
                              /\ ret[c] = RetStr(ToString(items[i]["orderId"]))

\* two records share the number under two ids, and the accessor gave the second id
C18_Witness ==
    /\ Constructed("a") /\ call["a"].op = "get_order_id"
    /\ WellFormedInput(order_dict) /\ Len(order_dict.items) = 2
    /\ order_dict.items[1]["orderNumber"] = call["a"].order_number
    /\ order_dict.items[2]["orderNumber"] = call["a"].order_number
    /\ order_dict.items[1]["orderId"] # order_dict.items[2]["orderId"]
    /\ ret["a"] = RetStr(ToString(order_dict.items[2]["orderId"]))

(***************************************************************************)
(* The listing of orders (Spec).                                           *)
(***************************************************************************)
ListingOps == {"get_all_orders", "get_order_by_order_number"}

\* the call of a listing operation has ended on a success whose body lists
\* two records with their orderId
ListedTwo(c) ==
    /\ pc[c] = "done"
    /\ call[c].op \in ListingOps
    /\ answers[c] # <<>>
    /\ SucceededWithLimits(Last(answers[c]))
    /\ "orders" \in DOMAIN Last(answers[c]).json
    /\ Len(Last(answers[c]).json["orders"]) = 2
    /\ Last(answers[c]).json["total"] = 2
    /\ \A i \in 1..2 : "orderId" \in DOMAIN Last(answers[c]).json["orders"][i]

\* C19: on a success response with the body {"orders": [r1, r2], "total": 2}
\* get_all_orders returns a model with order_count 2 and order_ids
\* [str(r1.orderId), str(r2.orderId)], and get_order_by_order_number returns
\* the same model on the same response.
C19_TwoListedOrders ==
    \A c \in Callers :
        ListedTwo(c)
            => LET body == Last(answers[c]).json IN
               /\ ret[c].tag = "model"
               /\ ret[c].model.order_count = 2
               /\ ret[c].model.order_ids =
                     <<ToString(body["orders"][1]["orderId"]),
                       ToString(body["orders"][2]["orderId"])>>
               /\ ret[c].model = ShipStationOrderResponse(PyList(body["orders"]))

\* get_order_by_order_number has returned the model of two listed records
C19_Witness ==
    /\ ListedTwo("a")
    /\ call["a"].op = "get_order_by_order_number"
    /\ ret["a"].tag = "model"
    /\ ret["a"].model.order_count = 2

(***************************************************************************)
(* The URL builder (SpecUrl).                                              *)
(***************************************************************************)
\* the call of build_path_url has returned or raised
UrlBuilt(c) == pc[c] = "done" /\ call[c].op = "build_path_url"

\* a key that matches no route, whatever its case
UnknownKey(k) == Lower(k) \notin DOMAIN route_map

\* C20: build_path_url(k) is "https://" + host + route_map[k] for a key k of
\* the route table and "https://" + host for an unknown k, and with a suffix s
\* that is not empty build_path_url(k, s) is build_path_url(k) + s.
C20_UrlIsHostRouteSuffix ==
    \A c \in Callers :
        UrlBuilt(c)
            => LET k == call[c].path
                   s == call[c].additional_path
               IN /\ k \in DOMAIN route_map
                        => ret[c] = RetStr("https://" \o host \o route_map[k] \o s)
                  /\ UnknownKey(k) => ret[c] = RetStr("https://" \o host \o s)

\* an unknown key with a suffix has given the host and the suffix
C20_Witness ==
    /\ UrlBuilt("a")
    /\ UnknownKey(call["a"].path)
    /\ call["a"].additional_path = "/hello/world/"
    /\ ret["a"] = RetStr("https://ssapi.shipstation.com/hello/world/")

\* C21: build_path_url matches the key whatever its case and never fails: for
\* a key whose lower-cased form is a route key ("ORDERS", "Orders") it gives
\* "https://" + host + the mapped path, and it raises on no input.
C21_KeyMatchedInAnyCase ==
    \A c \in Callers :
        UrlBuilt(c)
            => /\ ret[c].tag # "raise"
               /\ ~UnknownKey(call[c].path)
                    => ret[c] = RetStr("https://" \o host
                                       \o route_map[Lower(call[c].path)]
                                       \o call[c].additional_path)

(***************************************************************************)
(* The rate-limit tracker (SpecLimits).                                    *)
(***************************************************************************)
\* the caller's last call was of the operation op
Called(c, op) == pc[c] = "done" /\ call[c].op = op

\* C22: api_limit_at_max() is true exactly when request_remaining <= 0: false
\* on a new client (40, 60), true right after the tracker is updated with
\* (0, N), false right after (1, N); the update overwrites both fields and
\* returns True.
C22_AtMaxIffNothingRemains ==
    /\ [](\A c \in Callers :
            /\ pc[c] = "idle"
                => request_remaining = 40 /\ request_next_cycle_in_seconds = 60
            /\ Called(c, "api_limit_at_max")
                => /\ ret[c] = RetBool(request_remaining <= 0)
                   /\ request_remaining = 40 => ret[c] = RetBool(FALSE)
            /\ Called(c, "update_api_limits")
                => /\ request_remaining = call[c].request_remaining
                   /\ request_next_cycle_in_seconds = call[c].seconds_before_cycle_reset
                   /\ ret[c] = RetBool(TRUE))
    /\ [][\A c \in Callers :
            (Called(c, "update_api_limits") /\ call'[c].op = "api_limit_at_max")
                => /\ call[c].request_remaining = 0 => ret'[c] = RetBool(TRUE)
                   /\ call[c].request_remaining = 1 => ret'[c] = RetBool(FALSE)
                   /\ ret'[c] = RetBool(call[c].request_remaining <= 0)]_vars

\* the gate was asked after an update with (0, N), N not 0, and said True
C22_Witness ==
    /\ Called("a", "api_limit_at_max")
    /\ request_remaining = 0
    /\ request_next_cycle_in_seconds # 0
    /\ ret["a"] = RetBool(TRUE)

(***************************************************************************)
(* The budget over the life of the client (Spec).                          *)
(***************************************************************************)
\* C23: request_remaining is negative in no reachable state, whatever
\* integer the server writes in X-Rate-Limit-Remaining, and neither is
\* request_next_cycle_in_seconds.
C23_BudgetNeverNegative ==
    request_remaining >= 0 /\ request_next_cycle_in_seconds >= 0

\* C24: a call of a public operation, update_order_notes included, issues at
\* most one HTTP request.
C24_OneRequestPerCall ==
    \A c \in Callers : Len(sent[c]) <= 1

(***************************************************************************)
(* The shared client (SpecShared).                                         *)
(***************************************************************************)
\* C25: with one client shared by two callers the gate and the request that
\* follows it are not atomic: from a budget of exactly one request both
\* callers pass the gate and both issue a request.  Passing the gate takes
\* nothing from the budget, so a caller between two calls passes it whatever
\* the other caller has on the wire.
C25_GateSharedNotAtomic ==
    \A c, d \in Callers :
        (c # d /\ request_remaining = 1 /\ Idle(d))
            => /\ ENABLED (delete_webhook(d) /\ pc'[d] = "wait")
               /\ ENABLED (create_webhook_subscription(d) /\ pc'[d] = "wait")

\* both callers passed the gate on a budget of one, and both requests are on
\* the wire
C25_Witness ==
    /\ request_remaining = 1
    /\ \A c \in Callers : pc[c] = "wait" /\ Len(sent[c]) = 1 /\ call[c].op \in GatedOps

(***************************************************************************)
(* The remote order (SpecRemote).                                          *)
(***************************************************************************)
\* C26: a call of update_order_notes whose POST times out returns False and
\* leaves the remote order as it was: the remote order is replaced only by a
\* call that returns True, and in no state is it replaced while the call that
\* caused it reported failure.
C26_RemoteReplacedOnlyOnTrue ==
    \A c \in Callers :
        Called(c, "update_order_notes")
            => /\ (Len(answers[c]) = 2 /\ Last(answers[c]).kind = "ReadTimeout")
                    => ret[c] = RetBool(FALSE) /\ remote = <<>>
               /\ remote # <<>> => ret[c] = RetBool(TRUE)

(***************************************************************************)
(* The gate over the life of the client (Spec).                            *)
(***************************************************************************)
\* the operations that send their request whatever the budget is;
\* get_order_by_order_number sends the request of get_all_orders
UngatedOps ==
    {"get_all_stores", "get_order", "get_all_orders", "get_order_by_order_number",
     "hold_order", "update_order_notes"}

\* caller c takes a step of the call it is in, or begins one
Steps(c) ==
    <<pc[c], call[c], sent[c], answers[c], ret[c]>>'
        # <<pc[c], call[c], sent[c], answers[c], ret[c]>>

\* C27: the client never restores its budget by itself.  No step of a gated
\* operation writes the tracker, so with request_remaining <= 0 every call of
\* create_webhook_subscription, get_webhooks and delete_webhook is refused and
\* leaves the gate closed, whatever request_next_cycle_in_seconds is; the gate
\* opens again only in the step that takes a success answer to the request of
\* an ungated operation whose X-Rate-Limit-Remaining is above 0.
C27_GateReopensOnlyOnUngatedSuccess ==
    [][/\ \A c \in Callers :
            (Steps(c) /\ call'[c].op \in GatedOps)
                => /\ RateUnchanged
                   /\ (CallBegins(c) /\ request_remaining <= 0)
                        => RefusedAtOnce(c) /\ request_remaining' <= 0
       /\ (request_remaining <= 0 /\ request_remaining' > 0)
            => \E c \in Callers :
                  /\ TakesAnswer(c)
                  /\ call[c].op \in UngatedOps
                  /\ SucceededWithLimits(Last(answers'[c]))
                  /\ IntOf(Last(answers'[c]).headers[HdrRemaining]) > 0
                  /\ request_remaining' = IntOf(Last(answers'[c]).headers[HdrRemaining])]_vars

\* a gated call has been refused although the seconds to the next cycle are
\* down to 0
C27_Witness ==
    \E c \in Callers :
        /\ pc[c] = "done"
        /\ call[c].op \in GatedOps
        /\ request_remaining <= 0
        /\ request_next_cycle_in_seconds = 0
        /\ sent[c] = <<>>
        /\ IsFailureResult(call[c].op, ret[c])

(***************************************************************************)
(* update_order_notes: the gate between its fetch and its POST (Spec).     *)
(***************************************************************************)
\* caller c takes the answer to the fetch of update_order_notes
TakesFetch(c) ==
    /\ Waiting(c, "update_order_notes")
    /\ TakesAnswer(c)

\* the tracker holds what the answer res reports
TrackerHolds(res) ==
    /\ request_remaining = IntOf(res.headers[HdrRemaining])
    /\ request_next_cycle_in_seconds = IntOf(res.headers[HdrReset])

\* the order document is one this call may update, and the call builds its
\* body: it carries no custom note (with one the body is not built, see C8)
DocumentUpdatable(doc, args) ==
    /\ {"orderId", "orderNumber", "orderStatus"} \subseteq DOMAIN doc
    /\ doc["orderStatus"] \in order_status_able_to_be_updated
    /\ <<args.custom_note, args.custom_note2, args.custom_note3>> = <<"", "", "">>

\* C28: in update_order_notes the gate is tested on the remaining that the
\* call's own successful fetch has written, whatever the tracker held before
\* the call: a fetch reporting remaining <= 0 ends the call with False and no
\* POST, a fetch reporting remaining > 0 for an updatable order sends the POST;
\* while the POST waits, and after it is refused or fails, the tracker holds
\* the values the fetch reported.
C28_GateReadsTheFetch ==
    /\ [](\A c \in Callers :
            pc[c] = "wait_post" => TrackerHolds(answers[c][1]))
    /\ [][\A c \in Callers :
            /\ (TakesFetch(c) /\ SucceededWithLimits(Last(answers'[c])))
                => LET res == Last(answers'[c]) IN
                   /\ request_remaining' = IntOf(res.headers[HdrRemaining])
                   /\ request_next_cycle_in_seconds' = IntOf(res.headers[HdrReset])
                   /\ (IntOf(res.headers[HdrRemaining]) <= 0
                        => /\ pc'[c] = "done"
                           /\ sent'[c] = sent[c]
                           /\ ret'[c] = RetBool(FALSE))
                   /\ (/\ IntOf(res.headers[HdrRemaining]) > 0
                       /\ DocumentUpdatable(res.json, call[c]))
                        => /\ pc'[c] = "wait_post"
                           /\ Len(sent'[c]) = 2
                           /\ Last(sent'[c]).method = "POST"
            /\ (pc[c] = "wait_post" /\ TakesAnswer(c) /\ ~Succeeded(Last(answers'[c])))
                => /\ RateUnchanged
                   /\ ret'[c] = RetBool(FALSE)]_vars

\* the POST has failed and the tracker holds what the fetch reported
C28_Witness ==
    \E c \in Callers :
        /\ Called(c, "update_order_notes")
        /\ Len(answers[c]) = 2
        /\ ~Succeeded(answers[c][2])
        /\ TrackerHolds(answers[c][1])
        /\ request_remaining > 0

(***************************************************************************)
(* What the client does with answers that lack what it reads (Spec).       *)
(***************************************************************************)
\* C29: when the fetched record has no orderStatus key, update_order_notes
\* returns False, issues no POST and raises nothing.
C29_NoStatusMeansFalse ==
    \A c \in Callers :
        (/\ Called(c, "update_order_notes")
         /\ answers[c] # <<>>
         /\ SucceededWithLimits(answers[c][1])
         /\ "orderId" \in DOMAIN answers[c][1].json
         /\ "orderStatus" \notin DOMAIN answers[c][1].json)
        => /\ ret[c] = RetBool(FALSE)
           /\ Len(sent[c]) = 1

\* the operations that write the tracker from the headers of a success
HeaderReadingOps ==
    {"get_all_stores", "get_order", "get_all_orders", "update_order_notes", "hold_order"}

\* C30: a response with a success status whose rate-limit headers are absent
\* or not decimal leaves request_remaining and request_next_cycle_in_seconds
\* as they were, and the operation taking it raises nothing.
C30_SuccessWithoutLimitsIsHarmless ==
    [][\A c \in Callers :
          (/\ TakesAnswer(c)
           /\ call[c].op \in HeaderReadingOps
           /\ Succeeded(Last(answers'[c]))
           /\ ~SucceededWithLimits(Last(answers'[c])))
          => /\ RateUnchanged
             /\ ret'[c].tag # "raise"]_vars

====
